---- MODULE Spec2Model ----
(***************************************************************************)
(* The seven in-place sorting routines of src/sort.rs, each as a state     *)
(* machine over the slice `a`.  One action is one step of a routine: the   *)
(* head of a loop, one iteration of its body, a call or a return.          *)
(*                                                                         *)
(* Indices are 0-based as in the source; At(s, x) reads s[x].  An element  *)
(* is a record [key, id]: the predicate looks at key only and id is the    *)
(* position the element had on entry, so equal-ordered elements stay       *)
(* distinguishable.  Unsigned arithmetic that goes below zero panics in a  *)
(* debug build and wraps in a release build; an out-of-range index always  *)
(* panics.                                                                 *)
(***************************************************************************)
EXTENDS Integers, Sequences, FiniteSets, TLC

VARIABLES alg, ord, build, input, a, pc, fault,
          i, j, k, i_min, start, end, changed, o, pivot, aux, hlen, stack

params == <<alg, ord, build, input>>
locals == <<i, j, k, i_min, start, end, changed, o, pivot, aux, hlen, stack>>
vars   == <<alg, ord, build, input, a, pc, fault,
            i, j, k, i_min, start, end, changed, o, pivot, aux, hlen, stack>>

\* Longest slice and largest key explored.
MaxLen == 5
MaxKey == 3

\* usize arithmetic is modulo 2^w; 16 bits is the narrowest usize Rust has.
UsizeModulus == 2^16

Algs   == {"selection", "bubble", "cocktail", "insection", "merge", "quick", "heap"}
Orders == {"lt", "gt"}
Builds == {"debug", "release"}
Keys   == 1..MaxKey

\* The slice on entry, for a sequence of keys.
Tagged(ks) == [p \in 1..Len(ks) |-> [key |-> ks[p], id |-> p]]
Inputs == {Tagged(ks) : ks \in UNION {[1..n -> Keys] : n \in 0..MaxLen}}

NoElem == [key |-> 0, id |-> 0]

\* The predicate the caller passes: |a,b| a<b, or its reverse |a,b| a>b.
less_than(x, y) == IF ord = "lt" THEN x.key < y.key ELSE x.key > y.key

\* a[x], for x inside the slice.
At(s, x) == s[x + 1]
InBounds(s, x) == 0 <= x /\ x < Len(s)

\* a.swap(x, y)
Swap(s, x, y) == [s EXCEPT ![x + 1] = s[y + 1], ![y + 1] = s[x + 1]]

\* x - y on usize: whether it goes below zero, and the value a release build
\* continues with.
Underflows(x, y) == x < y
WrapSub(x, y) == IF x >= y THEN x - y ELSE x - y + UsizeModulus

\* The fault recorded once a subtraction has (or has not) gone below zero.
Note(under) == IF under THEN "underflow" ELSE fault

\* The thread panics: nothing else changes.
Panic(f) ==
    /\ pc' = "panic"
    /\ fault' = f
    /\ UNCHANGED <<params, a, locals>>

\* a[lo..hi] as a sequence of its own.
Slice(s, lo, hi) == [p \in 1..(hi - lo) |-> s[lo + p]]

Init ==
    /\ alg \in Algs
    /\ ord \in Orders
    /\ build \in Builds
    /\ input \in Inputs
    /\ a = input
    /\ pc = "call"
    /\ fault = "none"
    /\ i = 0 /\ j = 0 /\ k = 0 /\ i_min = 0
    /\ start = 0 /\ end = 0
    /\ changed = FALSE
    /\ o = <<>>
    /\ pivot = NoElem
    /\ aux = 0 /\ hlen = 0
    /\ stack = <<>>

----------------------------------------------------------------------------
\* selection

selection ==
    /\ pc = "call" /\ alg = "selection"
    /\ i' = 0
    /\ pc' = "selection_for_i"
    /\ UNCHANGED <<params, a, fault, j, k, i_min, start, end, changed, o, pivot,
                   aux, hlen, stack>>

\* for i in 0..=a.len() { let mut i_min = i; ... }
SelectionOuter ==
    /\ pc = "selection_for_i"
    /\ IF i <= Len(a)
         THEN /\ i_min' = i
              /\ j' = i + 1
              /\ pc' = "selection_for_j"
         ELSE /\ pc' = "done"
              /\ UNCHANGED <<i_min, j>>
    /\ UNCHANGED <<params, a, fault, i, k, start, end, changed, o, pivot,
                   aux, hlen, stack>>

\* for j in i+1..a.len() { if cmp(a[j], a[i_min]) { i_min = j } }
\* and, once the range is used up, the swap into position i.
SelectionInner ==
    /\ pc = "selection_for_j"
    /\ IF j < Len(a)
         THEN IF InBounds(a, j) /\ InBounds(a, i_min)
                THEN /\ i_min' = IF less_than(At(a, j), At(a, i_min)) THEN j ELSE i_min
                     /\ j' = j + 1
                     /\ UNCHANGED <<params, a, pc, fault, i, k, start, end, changed,
                                    o, pivot, aux, hlen, stack>>
                ELSE Panic("bounds")
         ELSE IF i_min # i
                THEN IF InBounds(a, i_min) /\ InBounds(a, i)
                       THEN /\ a' = Swap(a, i_min, i)
                            /\ i' = i + 1
                            /\ pc' = "selection_for_i"
                            /\ UNCHANGED <<params, fault, j, k, i_min, start, end,
                                           changed, o, pivot, aux, hlen, stack>>
                       ELSE Panic("bounds")
                ELSE /\ i' = i + 1
                     /\ pc' = "selection_for_i"
                     /\ UNCHANGED <<params, a, fault, j, k, i_min, start, end,
                                    changed, o, pivot, aux, hlen, stack>>

----------------------------------------------------------------------------
\* bubble

\* A reversed range (lo..hi).rev() is kept as its remaining upper bound:
\* next() lowers the bound by one and yields it.
bubble ==
    /\ pc = "call" /\ alg = "bubble"
    /\ i' = Len(a)
    /\ pc' = "bubble_for_i"
    /\ UNCHANGED <<params, a, fault, j, k, i_min, start, end, changed, o, pivot,
                   aux, hlen, stack>>

\* for i in (0..a.len()).rev()
BubbleOuter ==
    /\ pc = "bubble_for_i"
    /\ IF 0 < i
         THEN /\ i' = i - 1
              /\ j' = 0
              /\ pc' = "bubble_for_j"
         ELSE /\ pc' = "done"
              /\ UNCHANGED <<i, j>>
    /\ UNCHANGED <<params, a, fault, k, i_min, start, end, changed, o, pivot,
                   aux, hlen, stack>>

\* for j in 0..i { if cmp(a[j+1], a[j]) { a.swap(j, j+1) } }
BubbleInner ==
    /\ pc = "bubble_for_j"
    /\ IF j < i
         THEN IF InBounds(a, j + 1) /\ InBounds(a, j)
                THEN /\ a' = IF less_than(At(a, j + 1), At(a, j))
                               THEN Swap(a, j, j + 1) ELSE a
                     /\ j' = j + 1
                     /\ UNCHANGED <<params, pc, fault, i, k, i_min, start, end,
                                    changed, o, pivot, aux, hlen, stack>>
                ELSE Panic("bounds")
         ELSE /\ pc' = "bubble_for_i"
              /\ UNCHANGED <<params, a, fault, i, j, k, i_min, start, end,
                             changed, o, pivot, aux, hlen, stack>>

----------------------------------------------------------------------------
\* insection

insection ==
    /\ pc = "call" /\ alg = "insection"
    /\ i' = 1
    /\ pc' = "insection_for_i"
    /\ UNCHANGED <<params, a, fault, j, k, i_min, start, end, changed, o, pivot,
                   aux, hlen, stack>>

\* for i in 1..a.len() { for j in (0..i).rev() ... }
InsectionOuter ==
    /\ pc = "insection_for_i"
    /\ IF i < Len(a)
         THEN /\ j' = i
              /\ pc' = "insection_for_j"
         ELSE /\ pc' = "done"
              /\ UNCHANGED j
    /\ UNCHANGED <<params, a, fault, i, k, i_min, start, end, changed, o, pivot,
                   aux, hlen, stack>>

\* for j in (0..i).rev() { if cmp(a[j+1], a[j]) { a.swap(j, j+1) } }
InsectionInner ==
    /\ pc = "insection_for_j"
    /\ IF 0 < j
         THEN IF InBounds(a, j) /\ InBounds(a, j - 1)
                THEN /\ a' = IF less_than(At(a, j), At(a, j - 1))
                               THEN Swap(a, j - 1, j) ELSE a
                     /\ j' = j - 1
                     /\ UNCHANGED <<params, pc, fault, i, k, i_min, start, end,
                                    changed, o, pivot, aux, hlen, stack>>
                ELSE Panic("bounds")
         ELSE /\ i' = i + 1
              /\ pc' = "insection_for_i"
              /\ UNCHANGED <<params, a, fault, j, k, i_min, start, end,
                             changed, o, pivot, aux, hlen, stack>>

----------------------------------------------------------------------------
\* cocktail

\* let mut changed = true; let mut start = 0; let mut end = a.len()-1;
cocktail ==
    /\ pc = "call" /\ alg = "cocktail"
    /\ IF Underflows(Len(a), 1) /\ build = "debug"
         THEN Panic("underflow")
         ELSE /\ changed' = TRUE
              /\ start' = 0
              /\ end' = WrapSub(Len(a), 1)
              /\ fault' = Note(Underflows(Len(a), 1))
              /\ pc' = "cocktail_while"
              /\ UNCHANGED <<params, a, i, j, k, i_min, o, pivot, aux, hlen, stack>>

\* while changed { changed = false; for i in start..end ...
CocktailWhile ==
    /\ pc = "cocktail_while"
    /\ IF changed
         THEN /\ changed' = FALSE
              /\ i' = start
              /\ pc' = "cocktail_forward"
         ELSE /\ pc' = "done"
              /\ UNCHANGED <<changed, i>>
    /\ UNCHANGED <<params, a, fault, j, k, i_min, start, end, o, pivot, aux, hlen, stack>>

\* One iteration of the forward pass, or, once start..end is used up, the
\* statements up to the head of the backward pass:
\*   end -= 1; if !changed { break; } changed = true; for i in (start..end-1).rev()
CocktailForward ==
    /\ pc = "cocktail_forward"
    /\ IF i < end
         THEN IF InBounds(a, i + 1) /\ InBounds(a, i)
                THEN /\ a' = IF less_than(At(a, i + 1), At(a, i))
                               THEN Swap(a, i, i + 1) ELSE a
                     /\ changed' = (changed \/ less_than(At(a, i + 1), At(a, i)))
                     /\ i' = i + 1
                     /\ UNCHANGED <<params, pc, fault, j, k, i_min, start, end,
                                    o, pivot, aux, hlen, stack>>
                ELSE Panic("bounds")
         ELSE IF Underflows(end, 1) /\ build = "debug"
                THEN Panic("underflow")
                ELSE LET end1 == WrapSub(end, 1) IN
                     IF ~changed
                       THEN /\ end' = end1
                            /\ fault' = Note(Underflows(end, 1))
                            /\ pc' = "done"
                            /\ UNCHANGED <<params, a, i, j, k, i_min, start, changed,
                                           o, pivot, aux, hlen, stack>>
                       ELSE IF Underflows(end1, 1) /\ build = "debug"
                              THEN Panic("underflow")
                              ELSE /\ end' = end1
                                   /\ changed' = TRUE
                                   /\ i' = WrapSub(end1, 1)
                                   /\ fault' = Note(Underflows(end, 1) \/ Underflows(end1, 1))
                                   /\ pc' = "cocktail_backward"
                                   /\ UNCHANGED <<params, a, j, k, i_min, start,
                                                  o, pivot, aux, hlen, stack>>

\* One iteration of the backward pass; i is the remaining upper bound of the
\* reversed range and the index it yields is i-1.  Once the range is used
\* up: start += 1.
CocktailBackward ==
    /\ pc = "cocktail_backward"
    /\ IF start < i
         THEN IF InBounds(a, i) /\ InBounds(a, i - 1)
                THEN /\ a' = IF less_than(At(a, i), At(a, i - 1))
                               THEN Swap(a, i - 1, i) ELSE a
                     /\ changed' = TRUE
                     /\ i' = i - 1
                     /\ UNCHANGED <<params, pc, fault, j, k, i_min, start, end,
                                    o, pivot, aux, hlen, stack>>
                ELSE Panic("bounds")
         ELSE /\ start' = start + 1
              /\ pc' = "cocktail_while"
              /\ UNCHANGED <<params, a, fault, i, j, k, i_min, end, changed,
                             o, pivot, aux, hlen, stack>>

----------------------------------------------------------------------------
\* Calls on sub-slices.  A frame is one call of merge or quick on a[lo..hi];
\* mid is its split point (an offset into a for merge, the value partition
\* returned for quick) and at is where the call stands.  The head of stack is
\* the running call.

Frame(lo, hi) == [lo |-> lo, hi |-> hi, mid |-> 0, at |-> "entry"]
Top == Head(stack)
FrameLen(f) == f.hi - f.lo
InFrame(f, x) == 0 <= x /\ x < FrameLen(f)

\* The running call makes a call on a[lo..hi] and waits in `at`.
Call(lo, hi, m, at) ==
    stack' = <<Frame(lo, hi), [Top EXCEPT !.mid = m, !.at = at]>> \o Tail(stack)

\* The running call returns; the outermost return ends the sort.
Return ==
    /\ stack' = Tail(stack)
    /\ pc' = IF Tail(stack) = <<>> THEN "done" ELSE pc

----------------------------------------------------------------------------
\* merge, combine

\* combine takes the left front element always.
TakeLeftAlways(x, y) == TRUE

\* if cmp(&l[i], &r[j]) : the left front element goes out first.
TakeLeft(x, y) == less_than(x, y)

\* A copy that repeats the first element of src.
CopyFromFirst(dst, from, src) ==
    [p \in 1..Len(dst) |-> IF p > from THEN src[1] ELSE dst[p]]

\* dst[from..].copy_from_slice(src), for slices of equal length.
CopyFrom(dst, from, src) ==
    [p \in 1..Len(dst) |-> IF p > from THEN src[p - from] ELSE dst[p]]

merge ==
    /\ pc = "call" /\ alg = "merge"
    /\ stack' = <<Frame(0, Len(a))>>
    /\ pc' = "merge"
    /\ UNCHANGED <<params, a, fault, i, j, k, i_min, start, end, changed, o, pivot,
                   aux, hlen>>

\* let (start, mid, end) = (0, a.len()/2, a.len());
\* if end<=1 { return; }  merge(&mut a[start..mid], cmp);
MergeEnter ==
    /\ pc = "merge" /\ Top.at = "entry"
    /\ IF FrameLen(Top) <= 1
         THEN Return
         ELSE /\ Call(Top.lo, Top.lo + (FrameLen(Top) \div 2),
                      Top.lo + (FrameLen(Top) \div 2), "left")
              /\ UNCHANGED pc
    /\ UNCHANGED <<params, a, fault, i, j, k, i_min, start, end, changed, o, pivot,
                   aux, hlen>>

\* merge(&mut a[mid..end], cmp);
MergeRight ==
    /\ pc = "merge" /\ Top.at = "left"
    /\ Call(Top.mid, Top.hi, Top.mid, "right")
    /\ UNCHANGED <<params, a, pc, fault, i, j, k, i_min, start, end, changed, o,
                   pivot, aux, hlen>>

\* let mut o = a.to_vec(); and the head of combine(l, r, o):
\* assert_eq!(r.len()+l.len(), o.len()); let (mut i, mut j, mut k) = (0, 0, 0);
MergeCombine ==
    /\ pc = "merge" /\ Top.at = "right"
    /\ LET o0 == Slice(a, Top.lo, Top.hi) IN
       IF (Top.hi - Top.mid) + (Top.mid - Top.lo) # Len(o0)
         THEN Panic("assert")
         ELSE /\ o' = o0
              /\ i' = 0 /\ j' = 0 /\ k' = 0
              /\ stack' = <<[Top EXCEPT !.at = "combine"]>> \o Tail(stack)
              /\ UNCHANGED <<params, a, pc, fault, i_min, start, end, changed,
                             pivot, aux, hlen>>

\* One iteration of  while i<l.len() && j<r.len()
CombineLoop ==
    /\ pc = "merge" /\ Top.at = "combine"
    /\ LET l == Slice(a, Top.lo, Top.mid)
           r == Slice(a, Top.mid, Top.hi) IN
       /\ i < Len(l) /\ j < Len(r)
       /\ IF InBounds(o, k)
            THEN /\ IF TakeLeft(At(l, i), At(r, j))
                      THEN /\ o' = [o EXCEPT ![k + 1] = At(l, i)]
                           /\ i' = i + 1
                           /\ UNCHANGED j
                      ELSE /\ o' = [o EXCEPT ![k + 1] = At(r, j)]
                           /\ j' = j + 1
                           /\ UNCHANGED i
                 /\ k' = k + 1
                 /\ UNCHANGED <<params, a, pc, fault, i_min, start, end, changed,
                                pivot, aux, hlen, stack>>
            ELSE Panic("bounds")

\* After the loop: the rest of l, then the rest of r, go to o[k..];
\* back in merge, a.copy_from_slice(&o), and merge returns.
CombineFinish ==
    /\ pc = "merge" /\ Top.at = "combine"
    /\ LET l == Slice(a, Top.lo, Top.mid)
           r == Slice(a, Top.mid, Top.hi)
           restL == Slice(l, i, Len(l))
           restR == Slice(r, j, Len(r))
           fitsL == i < Len(l) => Len(o) - k = Len(restL)
           o1 == IF i < Len(l) /\ fitsL THEN CopyFrom(o, k, restL) ELSE o
           fitsR == j < Len(r) => Len(o1) - k = Len(restR)
           o2 == IF j < Len(r) /\ fitsR THEN CopyFrom(o1, k, restR) ELSE o1
       IN
       /\ ~(i < Len(l) /\ j < Len(r))
       /\ IF fitsL /\ fitsR /\ Len(o2) = FrameLen(Top)
            THEN /\ o' = o2
                 /\ a' = [p \in 1..Len(a) |->
                            IF Top.lo < p /\ p <= Top.hi THEN o2[p - Top.lo] ELSE a[p]]
                 /\ Return
                 /\ UNCHANGED <<params, fault, i, j, k, i_min, start, end, changed,
                                pivot, aux, hlen>>
            ELSE Panic("bounds")

----------------------------------------------------------------------------
\* quick, partition

\* The comparison of partition with its arguments exchanged.
PivotSideReversed(x, p) == less_than(p, x)

\* if cmp(&a[j], &pivot) : x goes to the left of the pivot.
PivotSide(x, p) == less_than(x, p)

quick ==
    /\ pc = "call" /\ alg = "quick"
    /\ stack' = <<Frame(0, Len(a))>>
    /\ pc' = "quick"
    /\ UNCHANGED <<params, a, fault, i, j, k, i_min, start, end, changed, o, pivot,
                   aux, hlen>>

\* let (start, end) = (0, a.len()); if end<=1 { return; }
\* and the head of partition(a, cmp):
\*   let (start, end) = (0, a.len()-1);
\*   let rand = thread_rng().gen_range(start, end);   (panics on an empty range)
\*   let pivot = a[rand]; a.swap(rand, end); let mut i = start; for j in start..end
QuickEnter ==
    /\ pc = "quick" /\ Top.at = "entry"
    /\ IF FrameLen(Top) <= 1
         THEN /\ Return
              /\ UNCHANGED <<params, a, fault, i, j, k, i_min, start, end, changed,
                             o, pivot, aux, hlen>>
         ELSE IF Underflows(FrameLen(Top), 1) /\ build = "debug"
                THEN Panic("underflow")
                ELSE LET e == WrapSub(FrameLen(Top), 1) IN
                     IF ~(0 < e)
                       THEN Panic("empty_range")
                       ELSE \E rand \in 0..(e - 1) :
                            IF InFrame(Top, rand) /\ InFrame(Top, e)
                              THEN /\ start' = 0
                                   /\ end' = e
                                   /\ pivot' = At(a, Top.lo + rand)
                                   /\ a' = Swap(a, Top.lo + rand, Top.lo + e)
                                   /\ i' = 0
                                   /\ j' = 0
                                   /\ fault' = Note(Underflows(FrameLen(Top), 1))
                                   /\ stack' = <<[Top EXCEPT !.at = "partition"]>>
                                                 \o Tail(stack)
                                   /\ UNCHANGED <<params, pc, k, i_min, changed, o,
                                                  aux, hlen>>
                              ELSE Panic("bounds")

\* for j in start..end { if cmp(&a[j], &pivot) { a.swap(i, j); i += 1; } }
PartitionLoop ==
    /\ pc = "quick" /\ Top.at = "partition"
    /\ j < end
    /\ IF InFrame(Top, j) /\ InFrame(Top, i)
         THEN /\ IF PivotSide(At(a, Top.lo + j), pivot)
                   THEN /\ a' = Swap(a, Top.lo + i, Top.lo + j)
                        /\ i' = i + 1
                   ELSE UNCHANGED <<a, i>>
              /\ j' = j + 1
              /\ UNCHANGED <<params, pc, fault, k, i_min, start, end, changed, o,
                             pivot, aux, hlen, stack>>
         ELSE Panic("bounds")

\* a.swap(i, end); i+1   and, back in quick with mid = i+1:
\*   quick(&mut a[start..mid-1], cmp);
PartitionEnd ==
    /\ pc = "quick" /\ Top.at = "partition"
    /\ ~(j < end)
    /\ LET mid == i + 1 IN
       IF ~(InFrame(Top, i) /\ InFrame(Top, end))
         THEN Panic("bounds")
         ELSE IF Underflows(mid, 1) /\ build = "debug"
                THEN Panic("underflow")
                ELSE IF WrapSub(mid, 1) > FrameLen(Top)
                       THEN Panic("bounds")
                       ELSE /\ a' = Swap(a, Top.lo + i, Top.lo + end)
                            /\ Call(Top.lo, Top.lo + WrapSub(mid, 1), mid, "left")
                            /\ fault' = Note(Underflows(mid, 1))
                            /\ UNCHANGED <<params, pc, i, j, k, i_min, start, end,
                                           changed, o, pivot, aux, hlen>>

\* quick(&mut a[mid..end], cmp);
QuickRight ==
    /\ pc = "quick" /\ Top.at = "left"
    /\ IF Top.mid > FrameLen(Top)
         THEN Panic("bounds")
         ELSE /\ Call(Top.lo + Top.mid, Top.hi, Top.mid, "right")
              /\ UNCHANGED <<params, a, pc, fault, i, j, k, i_min, start, end,
                             changed, o, pivot, aux, hlen>>

\* Both calls are back: quick returns.
QuickReturn ==
    /\ pc = "quick" /\ Top.at = "right"
    /\ Return
    /\ UNCHANGED <<params, a, fault, i, j, k, i_min, start, end, changed, o, pivot,
                   aux, hlen>>

----------------------------------------------------------------------------
\* heap, heapify

\* let (left_child, right_child) = (2*aux, 2*aux+1);
LeftChild(x) == 2 * x
RightChild(x) == 2 * x + 1

\* let (start, end) = (0, a.len()); for i in (start..end/2).rev()
heap ==
    /\ pc = "call" /\ alg = "heap"
    /\ start' = 0
    /\ end' = Len(a)
    /\ i' = Len(a) \div 2
    /\ pc' = "heap_build"
    /\ UNCHANGED <<params, a, fault, j, k, i_min, changed, o, pivot, aux, hlen, stack>>

\* for i in (start..end/2).rev() { heapify(&mut a[..], cmp, i); }
\* and, once the range is used up, the head of  for i in (0..end).rev()
HeapBuild ==
    /\ pc = "heap_build"
    /\ IF start < i
         THEN /\ i' = i - 1
              /\ hlen' = Len(a)
              /\ aux' = i - 1
              /\ pc' = "heapify_build"
         ELSE /\ i' = end
              /\ pc' = "heap_extract"
              /\ UNCHANGED <<hlen, aux>>
    /\ UNCHANGED <<params, a, fault, j, k, i_min, start, end, changed, o, pivot, stack>>

\* for i in (0..end).rev() { a.swap(0, i); heapify(&mut a[..i], cmp, 0); }
HeapExtract ==
    /\ pc = "heap_extract"
    /\ IF 0 < i
         THEN IF InBounds(a, 0) /\ InBounds(a, i - 1)
                THEN /\ i' = i - 1
                     /\ a' = Swap(a, 0, i - 1)
                     /\ hlen' = i - 1
                     /\ aux' = 0
                     /\ pc' = "heapify_extract"
                     /\ UNCHANGED <<params, fault, j, k, i_min, start, end, changed,
                                    o, pivot, stack>>
                ELSE Panic("bounds")
         ELSE /\ pc' = "done"
              /\ UNCHANGED <<params, a, fault, i, j, k, i_min, start, end, changed,
                             o, pivot, aux, hlen, stack>>

\* One call of heapify on a[..hlen] at node aux; the call it ends with is the
\* next step, on the child it swapped with.
Heapify ==
    /\ pc \in {"heapify_build", "heapify_extract"}
    /\ LET left_child == LeftChild(aux)
           right_child == RightChild(aux)
           root1 == IF left_child < hlen /\ less_than(At(a, aux), At(a, left_child))
                      THEN left_child ELSE aux
           root == IF right_child < hlen /\ less_than(At(a, root1), At(a, right_child))
                     THEN right_child ELSE root1
       IN
       IF root # aux
         THEN /\ a' = Swap(a, aux, root)
              /\ aux' = root
              /\ UNCHANGED <<params, pc, fault, i, j, k, i_min, start, end, changed,
                             o, pivot, hlen, stack>>
         ELSE /\ pc' = IF pc = "heapify_build" THEN "heap_build" ELSE "heap_extract"
              /\ UNCHANGED <<params, a, fault, i, j, k, i_min, start, end, changed,
                             o, pivot, aux, hlen, stack>>

----------------------------------------------------------------------------
Next ==
    \/ selection \/ SelectionOuter \/ SelectionInner
    \/ bubble \/ BubbleOuter \/ BubbleInner
    \/ insection \/ InsectionOuter \/ InsectionInner
    \/ merge \/ MergeEnter \/ MergeRight \/ MergeCombine \/ CombineLoop \/ CombineFinish
    \/ quick \/ QuickEnter \/ PartitionLoop \/ PartitionEnd \/ QuickRight \/ QuickReturn
    \/ heap \/ HeapBuild \/ HeapExtract \/ Heapify
    \/ cocktail \/ CocktailWhile \/ CocktailForward \/ CocktailBackward

Spec == Init /\ [][Next]_vars

\* A call in progress keeps running: the sort is straight-line code on the
\* calling thread and nothing suspends it.
FairSpec == Spec /\ WF_vars(Next)

----------------------------------------------------------------------------
\* Properties

\* No adjacent pair is out of order.
Sorted(s) == \A p \in 1..(Len(s) - 1) : ~less_than(s[p + 1], s[p])

Count(s, e) == Cardinality({p \in DOMAIN s : s[p] = e})
Range(s) == {s[p] : p \in DOMAIN s}

\* Same length, same count of every element.
IsPermutation(s, t) ==
    /\ Len(s) = Len(t)
    /\ \A e \in Range(s) \cup Range(t) : Count(s, e) = Count(t, e)

EqualOrdered(x, y) == ~less_than(x, y) /\ ~less_than(y, x)

\* Equal-ordered elements are in the order they had on entry.
Stable(s) ==
    \A p, q \in DOMAIN s :
        (p < q /\ EqualOrdered(s[p], s[q])) => s[p].id < s[q].id

\* C1: when selection, bubble, insection or merge has returned, no adjacent
\* pair of the slice is out of order under the predicate.
C1_OrderCorrect ==
    (pc = "done" /\ alg \in {"selection", "bubble", "insection", "merge"})
        => Sorted(a)

C1_Witness ==
    /\ pc = "done" /\ alg \in {"selection", "bubble", "insection", "merge"}
    /\ Len(input) >= 3 /\ ~Sorted(input) /\ a # input

\* C2: when heap has returned, no adjacent pair of the slice is out of order.
C2_HeapOrderCorrect ==
    (pc = "done" /\ alg = "heap") => Sorted(a)

\* C3: when cocktail has returned, no adjacent pair of the slice is out of
\* order.
C3_CocktailOrderCorrect ==
    (pc = "done" /\ alg = "cocktail") => Sorted(a)

\* C4: when quick has returned, whatever pivots were drawn, the slice is
\* sorted and is a permutation of the slice on entry.
C4_QuickCorrect ==
    (pc = "done" /\ alg = "quick") => (Sorted(a) /\ IsPermutation(a, input))

C4_Witness ==
    /\ pc = "done" /\ alg = "quick"
    /\ Len(input) >= 3 /\ ~Sorted(input)

\* C5: when any of the seven sorts has returned, the slice has the length it
\* had on entry and the same count of every element.
C5_Permutation ==
    pc = "done" => IsPermutation(a, input)

C5_Witness ==
    /\ pc = "done" /\ alg = "merge"
    /\ Len(input) >= 3 /\ a # input

\* C6: a call on a slice of length 0 or 1 does not fault, computes no index
\* below zero, and leaves the slice as it was.
C6_EmptySingleton ==
    Len(input) <= 1 => (pc # "panic" /\ fault = "none" /\ a = input)

\* C7: when merge, bubble or insection has returned, equal-ordered elements
\* are in the order they had on entry.
C7_Stability ==
    (pc = "done" /\ alg \in {"merge", "bubble", "insection"}) => Stable(a)

\* C8: when a sort has returned from a call on a sorted slice, the slice is
\* identical, position by position, to the slice on entry.
C8_Idempotence ==
    (pc = "done" /\ Sorted(input)) => a = input

\* C9: every call eventually returns.
C9_Termination == <>(pc = "done")

\* C10: no step computes an unsigned index or bound below zero and no
\* element access is outside the slice.
C10_IndexSafety == fault = "none"
====
